---- MODULE Spec2Model ----
(***************************************************************************)
(* Model of lab_8_llm/main.py: RawDataImporter, RawDataPreprocessor,       *)
(* TaskDataset, LLMPipeline and TaskEvaluator.                             *)
(*                                                                         *)
(* A str is a sequence of one-character strings.  A DataFrame is a record  *)
(* [kind |-> "DataFrame", cols, rows]: cols is the sequence of column      *)
(* labels, rows the sequence of rows, each row a sequence of cells aligned *)
(* with cols (positional, as .iloc sees it).                               *)
(***************************************************************************)
EXTENDS Integers, Sequences, FiniteSets, TLC

VARIABLES
    raw_data,       \* RawDataImporter._raw_data / RawDataPreprocessor._raw_data
    fetched,        \* what load_dataset(...).to_pandas() produced (history)
    obtainStatus,   \* "new" | "ok" | "TypeError"
    report,         \* value returned by analyze()
    analyzeStatus,  \* "none" | "ok" | "ValueError"
    clean_data,     \* RawDataPreprocessor._data
    ds_data,        \* TaskDataset._data
    data0,          \* the table TaskDataset was constructed with (history)
    batch_size,     \* LLMPipeline._batch_size
    model,          \* LLMPipeline._model (which generation behaviour was loaded)
    sampleArg,      \* argument of the last infer_sample() call
    sampleRet,      \* value returned by the last infer_sample() call
    sampleTexts,    \* texts handed to the tokenizer by the last infer_sample()
    batchLog,       \* per batch of the last infer_dataset(): indices, texts, predictions
    datasetRet,     \* value returned by the last infer_dataset() call
    inferCalls,     \* number of infer_dataset() calls so far
    csv,            \* content of the file at TaskEvaluator._data_path
    metrics,        \* TaskEvaluator._metrics
    runRet,         \* value returned by run()
    runStatus       \* "none" | "ok"

vars == <<raw_data, fetched, obtainStatus, report, analyzeStatus, clean_data,
          ds_data, data0, batch_size, model, sampleArg, sampleRet, sampleTexts,
          batchLog, datasetRet, inferCalls, csv, metrics, runRet, runStatus>>

preVars == <<raw_data, fetched, obtainStatus, report, analyzeStatus, clean_data>>
inferVars == <<ds_data, data0, batch_size, model, sampleArg, sampleRet, sampleTexts,
               batchLog, datasetRet, inferCalls>>
evalVars == <<csv, metrics, runRet, runStatus>>

----------------------------------------------------------------------------
(* Bounds *)

MaxRawRows == 2
MaxRows == 3
MaxBatch == 3
MaxInferCalls == 2
MaxMetrics == 3

----------------------------------------------------------------------------
(* Values *)

None == [kind |-> "None"]
NA == <<"<NA>">>
EmptyStr == <<>>

\* a value held where None can be held too
Value(v) == [kind |-> "value", value |-> v]

Min(a, b) == IF a <= b THEN a ELSE b
Max(a, b) == IF a >= b THEN a ELSE b

SeqsUpTo(S, lo, hi) == UNION {[1..n -> S] : n \in lo..hi}

IsDataFrame(x) == x.kind = "DataFrame"

DataFrame(cols, rows) == [kind |-> "DataFrame", cols |-> cols, rows |-> rows]

\* DataFrame.shape
Shape(df) == <<Len(df.rows), Len(df.cols)>>

\* position of a column label
ColIndex(cols, name) == CHOOSE j \in 1..Len(cols) : cols[j] = name

HasCol(df, name) == \E j \in 1..Len(df.cols) : df.cols[j] = name

\* df.iloc[index][name], index counted from 0
Cell(df, index, name) == df.rows[index + 1][ColIndex(df.cols, name)]

\* df[name] as a list
Column(df, name) == [i \in 1..Len(df.rows) |-> df.rows[i][ColIndex(df.cols, name)]]

\* the subsequence of s at the positions in keep, from position i on
RECURSIVE SelectPos(_, _, _)
SelectPos(s, keep, i) ==
    IF i > Len(s) THEN <<>>
    ELSE (IF i \in keep THEN <<s[i]>> ELSE <<>>) \o SelectPos(s, keep, i + 1)

\* DataFrame.drop(columns=names)
DropColumns(df, names) ==
    LET keep == {j \in 1..Len(df.cols) : df.cols[j] \notin names}
    IN DataFrame(SelectPos(df.cols, keep, 1),
                 [i \in 1..Len(df.rows) |-> SelectPos(df.rows[i], keep, 1)])

\* DataFrame.rename(columns=mapping); mapping is a function on some labels
RenameColumns(df, mapping) ==
    DataFrame([j \in 1..Len(df.cols) |->
                  IF df.cols[j] \in DOMAIN mapping THEN mapping[df.cols[j]] ELSE df.cols[j]],
              df.rows)

----------------------------------------------------------------------------
(* RawDataImporter *)

Instructions == {<<"a">>, <<"b", "c">>}
Inputs == {EmptyStr, NA, <<"i">>}
Outputs == {<<"x">>, <<"y">>}

RawLayouts == {<<"instruction", "input", "output", "text">>,
               <<"text", "id", "output", "input", "instruction">>}

\* the cell of a row under a column label
CellOf(label, instruction, input, output) ==
    CASE label \in {"instruction", "question"} -> instruction
      [] label = "input" -> input
      [] label \in {"output", "target"} -> output
      [] label = "text" -> <<"t">>
      [] OTHER -> <<"0">>

\* the rows a table with these column labels can hold
RawRows(cols) ==
    {[j \in 1..Len(cols) |-> CellOf(cols[j], ins, inp, out)] :
        ins \in Instructions, inp \in Inputs, out \in Outputs}

RawTables ==
    UNION {{DataFrame(cols, rows) : rows \in SeqsUpTo(RawRows(cols), 1, MaxRawRows)} :
              cols \in RawLayouts}

\* to_pandas() yields a DataFrame, or an iterator of DataFrames when batched
FetchResults == RawTables \cup {[kind |-> "Iterator"]}

ObtainStatusAlwaysOk(result) == "ok"

\* the isinstance check of obtain()
ObtainStatus(result) == IF ~IsDataFrame(result) THEN "TypeError" ELSE "ok"

Obtain ==
    /\ obtainStatus = "new"
    /\ \E result \in FetchResults :
        /\ fetched' = result
        /\ raw_data' = result
        /\ obtainStatus' = ObtainStatus(result)
    /\ UNCHANGED <<report, analyzeStatus, clean_data, inferVars, evalVars>>

----------------------------------------------------------------------------
(* RawDataPreprocessor *)

\* DataFrame.replace("", pd.NA)
ReplaceEmpty(df) ==
    DataFrame(df.cols,
              [i \in 1..Len(df.rows) |->
                  [j \in 1..Len(df.cols) |->
                      IF df.rows[i][j] = EmptyStr THEN NA ELSE df.rows[i][j]]])

\* DataFrame.dropna(): rows holding any missing cell are removed
DropNa(df) ==
    LET keep == {i \in 1..Len(df.rows) : \A j \in 1..Len(df.cols) : df.rows[i][j] # NA}
    IN DataFrame(df.cols, SelectPos(df.rows, keep, 1))

\* DataFrame.duplicated().sum(): rows equal to an earlier row
Duplicated(df) == Cardinality({i \in 1..Len(df.rows) : \E k \in 1..(i - 1) : df.rows[k] = df.rows[i]})

\* DataFrame.isna().sum().sum()
IsNaCount(df) ==
    Cardinality({p \in (1..Len(df.rows)) \X (1..Len(df.cols)) : df.rows[p[1]][p[2]] = NA})

\* len(min(xs, key=len)) for a non-empty xs
MinLen(xs) == CHOOSE m \in {Len(xs[i]) : i \in 1..Len(xs)} :
                  \A i \in 1..Len(xs) : m <= Len(xs[i])

\* len(max(xs, key=len)) for a non-empty xs
MaxLen(xs) == CHOOSE m \in {Len(xs[i]) : i \in 1..Len(xs)} :
                  \A i \in 1..Len(xs) : m >= Len(xs[i])

\* min()/max() of an empty sequence raise ValueError
AnalyzeRaises(df) == Len(DropNa(ReplaceEmpty(df)).rows) = 0

AnalyzeReport(df) ==
    LET without_empty_rows == DropNa(ReplaceEmpty(df))
    IN [dataset_number_of_samples |-> Shape(df)[1],
        dataset_columns |-> Shape(df)[2],
        dataset_duplicates |-> Duplicated(df),
        dataset_empty_rows |-> IsNaCount(ReplaceEmpty(df)),
        dataset_sample_min_len |-> MinLen(Column(without_empty_rows, "instruction")),
        dataset_sample_max_len |-> MaxLen(Column(without_empty_rows, "instruction"))]

Analyze ==
    /\ obtainStatus = "ok"
    /\ analyzeStatus = "none"
    /\ IF AnalyzeRaises(raw_data)
       THEN /\ analyzeStatus' = "ValueError"
            /\ report' = None
       ELSE /\ analyzeStatus' = "ok"
            /\ report' = AnalyzeReport(raw_data)
    /\ UNCHANGED <<raw_data, fetched, obtainStatus, clean_data, inferVars, evalVars>>

TransformTableKeepAll(df) ==
    RenameColumns(df, [c \in {"instruction", "output"} |->
                          IF c = "instruction" THEN "question" ELSE "target"])

TransformTable(df) ==
    RenameColumns(DropColumns(df, {"input", "text"}),
                  [c \in {"instruction", "output"} |->
                      IF c = "instruction" THEN "question" ELSE "target"])

\* an exception raised by analyze() ends the run
Transform ==
    /\ obtainStatus = "ok"
    /\ analyzeStatus # "ValueError"
    /\ clean_data = None
    /\ clean_data' = TransformTable(raw_data)
    /\ UNCHANGED <<raw_data, fetched, obtainStatus, report, analyzeStatus, inferVars, evalVars>>

----------------------------------------------------------------------------
(* TaskDataset *)

CleanLayouts == {<<"question", "target">>, <<"id", "target", "question">>}

CleanTables ==
    UNION {{DataFrame(cols, rows) : rows \in SeqsUpTo(RawRows(cols), 1, MaxRows)} :
              cols \in CleanLayouts}

\* TaskDataset.__len__
DatasetLen(df) == Len(df.rows)

GetItemSwapped(df, index) == <<Cell(df, index, "target"), Cell(df, index, "question")>>

\* TaskDataset.__getitem__
GetItem(df, index) == <<Cell(df, index, "question"), Cell(df, index, "target")>>

----------------------------------------------------------------------------
(* LLMPipeline *)

Models == {"echo", "truncating", "silent"}

\* tokenizer.model_max_length, in characters: longer prompts are truncated
ModelMaxLength == 1

Sep == <<" ">>

\* the text a model generates after a prompt
Continuation(prompt) == <<"=">> \o prompt

Truncate(text) == SubSeq(text, 1, Min(Len(text), ModelMaxLength))

\* tokenizer(...), model.generate(...) and batch_decode(...) on one text:
\* "echo" returns the prompt, a separator and a continuation; "truncating" does
\* so for the truncated prompt; "silent" generates nothing after the prompt
Decode(m, text) ==
    CASE m = "echo" -> text \o Sep \o Continuation(text)
      [] m = "truncating" -> Truncate(text) \o Sep \o Continuation(Truncate(text))
      [] m = "silent" -> text

\* s[k:]
SliceFrom(s, k) == IF k >= Len(s) THEN <<>> ELSE SubSeq(s, k + 1, Len(s))

\* the first argument of the tokenizer call: sample_batch[0]
TokenizerInput(sample_batch) == sample_batch[1]

InferBatchFirstLength(m, sample_batch) ==
    LET predictions == [i \in 1..Len(TokenizerInput(sample_batch)) |->
                           Decode(m, TokenizerInput(sample_batch)[i])]
    IN [i \in 1..Len(predictions) |->
           SliceFrom(predictions[i], Len(sample_batch[1][1]) + 1)]

\* LLMPipeline._infer_batch
InferBatch(m, sample_batch) ==
    LET predictions == [i \in 1..Len(TokenizerInput(sample_batch)) |->
                           Decode(m, TokenizerInput(sample_batch)[i])]
    IN [i \in 1..Len(predictions) |->
           SliceFrom(predictions[i], Len(sample_batch[1][i]) + 1)]

RECURSIVE BatchSamplerDropLast(_, _, _, _)
BatchSamplerDropLast(n, b, idx, batch) ==
    IF idx = n THEN <<>>
    ELSE IF Len(batch) + 1 = b
         THEN <<Append(batch, idx)>> \o BatchSamplerDropLast(n, b, idx + 1, <<>>)
         ELSE BatchSamplerDropLast(n, b, idx + 1, Append(batch, idx))

\* DataLoader(dataset, batch_size=b): indices 0..n-1 in order, grouped b at a
\* time, the remainder kept as a last, shorter batch
RECURSIVE BatchSampler(_, _, _, _)
BatchSampler(n, b, idx, batch) ==
    IF idx = n THEN (IF Len(batch) > 0 THEN <<batch>> ELSE <<>>)
    ELSE IF Len(batch) + 1 = b
         THEN <<Append(batch, idx)>> \o BatchSampler(n, b, idx + 1, <<>>)
         ELSE BatchSampler(n, b, idx + 1, Append(batch, idx))

\* the DataLoader's default collate: a list of (question, target) samples
\* becomes [questions, targets]
DefaultCollate(samples) ==
    <<[j \in 1..Len(samples) |-> samples[j][1]], [j \in 1..Len(samples) |-> samples[j][2]]>>

ExtendFront(prediction, more) == more \o prediction

\* list.extend
Extend(prediction, more) == prediction \o more

SetColumnAppendAlways(df, name, values) ==
    DataFrame(Append(df.cols, name),
              [i \in 1..Len(df.rows) |-> Append(df.rows[i], values[i])])

\* df[name] = values: an existing column is overwritten, a new one is added last
SetColumn(df, name, values) ==
    IF HasCol(df, name)
    THEN DataFrame(df.cols,
                   [i \in 1..Len(df.rows) |->
                       [j \in 1..Len(df.cols) |->
                           IF j = ColIndex(df.cols, name) THEN values[i] ELSE df.rows[i][j]]])
    ELSE DataFrame(Append(df.cols, name),
                   [i \in 1..Len(df.rows) |-> Append(df.rows[i], values[i])])

\* df[names]
SelectColumns(df, names) ==
    DataFrame(names,
              [i \in 1..Len(df.rows) |->
                  [j \in 1..Len(names) |-> df.rows[i][ColIndex(df.cols, names[j])]]])

\* the batches of one pass over the loader, each with what _infer_batch
\* tokenized and returned for it
LoaderPass(df, b, m) ==
    LET indices == BatchSampler(DatasetLen(df), b, 0, <<>>)
    IN [k \in 1..Len(indices) |->
           LET batch == DefaultCollate([j \in 1..Len(indices[k]) |-> GetItem(df, indices[k][j])])
           IN [idx |-> indices[k],
               texts |-> TokenizerInput(batch),
               out |-> InferBatch(m, batch)]]

\* the prediction list after the loop over the loader
RECURSIVE Accumulate(_, _, _)
Accumulate(log, k, prediction) ==
    IF k > Len(log) THEN prediction
    ELSE Accumulate(log, k + 1, Extend(prediction, log[k].out))

\* the (question, target) samples infer_sample() is called with
Samples == Instructions \X {<<"x">>}

InferSample ==
    /\ datasetRet.kind # "ValueError"
    /\ \E sample \in Samples :
        /\ sampleArg' = Value(sample)
        /\ sampleTexts' = Value(TokenizerInput(<<sample>>))
        /\ sampleRet' = IF model # "None" THEN Value(InferBatch(model, <<sample>>)[1]) ELSE None
    /\ UNCHANGED <<ds_data, data0, batch_size, model, batchLog, datasetRet, inferCalls,
                   preVars, evalVars>>

\* assigning a column of the wrong length raises ValueError
InferDataset ==
    /\ datasetRet.kind # "ValueError"
    /\ inferCalls < MaxInferCalls
    /\ LET log == LoaderPass(ds_data, batch_size, model)
           prediction == Accumulate(log, 1, <<>>)
       IN /\ batchLog' = log
          /\ inferCalls' = inferCalls + 1
          /\ IF Len(prediction) # Len(ds_data.rows)
             THEN /\ datasetRet' = [kind |-> "ValueError"]
                  /\ ds_data' = ds_data
             ELSE /\ ds_data' = SetColumn(ds_data, "predictions", prediction)
                  /\ datasetRet' = SelectColumns(ds_data', <<"target", "predictions">>)
    /\ UNCHANGED <<data0, batch_size, model, sampleArg, sampleRet, sampleTexts,
                   preVars, evalVars>>

----------------------------------------------------------------------------
(* TaskEvaluator *)

\* values of the Metrics enumeration
MetricIds == {"bleu", "rouge", "squad"}

\* what a scorer's compute() can return for the extracted key
Scores == {"low", "high"}

\* the persisted prediction table, written with the default index column
CsvTables ==
    {DataFrame(<<"Unnamed: 0", "target", "predictions">>, <<<<(<<"0">>), t, p>>>>) :
        t \in Outputs, p \in {<<"x">>, EmptyStr}}

\* dict.update({key: value})
Update(d, key, value) == [k \in DOMAIN d \cup {key} |-> IF k = key THEN value ELSE d[k]]

EmptyDict == [k \in {} |-> "low"]

RECURSIVE RunLoopNoFilter(_, _, _, _, _)
RunLoopNoFilter(ms, i, d, bleu_score, rouge_score) ==
    IF i > Len(ms) THEN d
    ELSE RunLoopNoFilter(ms, i + 1,
                 IF ms[i] = "rouge" THEN Update(d, "rouge", rouge_score)
                 ELSE Update(d, ms[i], bleu_score),
                 bleu_score, rouge_score)

\* the loop of run() over self._metrics
RECURSIVE RunLoop(_, _, _, _, _)
RunLoop(ms, i, d, bleu_score, rouge_score) ==
    IF i > Len(ms) THEN d
    ELSE RunLoop(ms, i + 1,
                 IF ms[i] = "bleu" THEN Update(d, "bleu", bleu_score)
                 ELSE IF ms[i] = "rouge" THEN Update(d, "rouge", rouge_score)
                 ELSE d,
                 bleu_score, rouge_score)

Run ==
    /\ runStatus = "none"
    /\ LET data == DropColumns(csv, {"Unnamed: 0"})
       IN \E bleu_score \in Scores, rouge_score \in Scores :
            /\ HasCol(data, "target") /\ HasCol(data, "predictions")
            /\ runRet' = RunLoop(metrics, 1, EmptyDict, bleu_score, rouge_score)
            /\ runStatus' = "ok"
    /\ UNCHANGED <<csv, metrics, preVars, inferVars>>

----------------------------------------------------------------------------
(* Specifications *)

PreIdle ==
    /\ raw_data = None /\ fetched = None /\ obtainStatus = "new"
    /\ report = None /\ analyzeStatus = "none" /\ clean_data = None

InferIdle ==
    /\ ds_data = None /\ data0 = None /\ batch_size = 1 /\ model = "None"
    /\ sampleArg = None /\ sampleRet = None /\ sampleTexts = None
    /\ batchLog = <<>> /\ datasetRet = None /\ inferCalls = 0

EvalIdle ==
    /\ csv = None /\ metrics = <<>> /\ runRet = None /\ runStatus = "none"

\* importer and preprocessor: RawDataImporter constructed, nothing obtained
Init == PreIdle /\ InferIdle /\ EvalIdle

Next == Obtain \/ Analyze \/ Transform

Spec == Init /\ [][Next]_vars

\* TaskDataset(data) and LLMPipeline(model_name, dataset, max_length, batch_size, device)
\* constructed
InitInfer ==
    /\ PreIdle /\ EvalIdle
    /\ ds_data \in CleanTables /\ data0 = ds_data
    /\ batch_size \in 1..MaxBatch
    /\ model \in Models
    /\ sampleArg = None /\ sampleRet = None /\ sampleTexts = None
    /\ batchLog = <<>> /\ datasetRet = None /\ inferCalls = 0

NextInfer == InferSample \/ InferDataset

SpecInfer == InitInfer /\ [][NextInfer]_vars

\* TaskEvaluator(data_path, metrics) constructed
InitEval ==
    /\ PreIdle /\ InferIdle
    /\ csv \in CsvTables
    /\ metrics \in SeqsUpTo(MetricIds, 0, MaxMetrics)
    /\ runRet = None /\ runStatus = "none"

NextEval == Run

SpecEval == InitEval /\ [][NextEval]_vars

----------------------------------------------------------------------------
(* Properties of the importer and the preprocessor (Spec) *)

\* C2: once transform() has run, the clean table has two columns fewer than the
\* raw table, holds question and target and none of instruction, output, input
\* and text, and has the raw table's rows in the raw order: question is the
\* row's instruction, target its output, every other kept column is unchanged,
\* and no row is left out.
C2_TransformProjection ==
    clean_data # None =>
        /\ Len(clean_data.cols) = Len(raw_data.cols) - 2
        /\ HasCol(clean_data, "question") /\ HasCol(clean_data, "target")
        /\ \A c \in {"instruction", "output", "input", "text"} : ~HasCol(clean_data, c)
        /\ Len(clean_data.rows) = Len(raw_data.rows)
        /\ \A i \in 0..(Len(raw_data.rows) - 1) :
            /\ Cell(clean_data, i, "question") = Cell(raw_data, i, "instruction")
            /\ Cell(clean_data, i, "target") = Cell(raw_data, i, "output")
            /\ \A j \in 1..Len(clean_data.cols) :
                  clean_data.cols[j] \notin {"question", "target"} =>
                      clean_data.rows[i + 1][j] = Cell(raw_data, i, clean_data.cols[j])

\* transform() has run on a table with a duplicated row that holds an empty cell
C2_Witness ==
    /\ clean_data # None
    /\ Len(raw_data.rows) = 2
    /\ raw_data.rows[1] = raw_data.rows[2]
    /\ Cell(raw_data, 0, "input") = EmptyStr
    /\ Len(clean_data.rows) = 2

\* C3: whenever analyze() has been called on a non-empty raw table it returned
\* a report whose dataset_number_of_samples is the row count and whose
\* dataset_columns is the column count.
C3_AnalyzeReports ==
    analyzeStatus # "none" =>
        /\ analyzeStatus = "ok"
        /\ report # None
        /\ report.dataset_number_of_samples = Len(raw_data.rows)
        /\ report.dataset_columns = Len(raw_data.cols)

\* C6: obtain() returns normally only with a DataFrame, which is the stored raw
\* table; a fetch result that is not a DataFrame ends obtain() with TypeError;
\* analyze() and transform() only ever work on a DataFrame.
C6_ObtainTabular ==
    /\ obtainStatus = "ok" => (IsDataFrame(fetched) /\ raw_data = fetched)
    /\ (obtainStatus # "new" /\ ~IsDataFrame(fetched)) => obtainStatus = "TypeError"
    /\ (analyzeStatus # "none" \/ clean_data # None) => IsDataFrame(raw_data)

\* obtain() has ended with TypeError on an iterator and no later stage has run
C6_Witness ==
    /\ obtainStatus = "TypeError"
    /\ fetched.kind = "Iterator"
    /\ analyzeStatus = "none" /\ clean_data = None

----------------------------------------------------------------------------
(* Properties of the dataset adapter and the pipeline (SpecInfer) *)

Rows0 == Len(data0.rows)

Question0(i) == data0.rows[i + 1][ColIndex(data0.cols, "question")]

Target0(i) == data0.rows[i + 1][ColIndex(data0.cols, "target")]

\* what is left of a decoded string after its first k characters
Stripped(decoded, k, out) ==
    /\ Len(out) = Max(0, Len(decoded) - k)
    /\ \A j \in 1..Len(out) : out[j] = decoded[j + k]

\* the decoded string is the question, then one more character, then the rest
EchoesPrompt(decoded, q) ==
    /\ Len(decoded) >= Len(q) + 1
    /\ SubSeq(decoded, 1, Len(q)) = q

\* C1: infer_dataset() returns a table with one row per input row, in the
\* input order; row i holds the target of input row i and the prediction
\* generated from the question of input row i.
C1_PredictionsAligned ==
    inferCalls > 0 =>
        /\ IsDataFrame(datasetRet)
        /\ Len(datasetRet.rows) = Rows0
        /\ \A i \in 0..(Rows0 - 1) :
            /\ Cell(datasetRet, i, "target") = Target0(i)
            /\ Stripped(Decode(model, Question0(i)), Len(Question0(i)) + 1,
                        Cell(datasetRet, i, "predictions"))

\* infer_dataset() has returned for three rows in batches of two, the rows
\* differing in question and in target
C1_Witness ==
    /\ inferCalls > 0
    /\ IsDataFrame(datasetRet)
    /\ Rows0 = 3 /\ batch_size = 2
    /\ Question0(0) # Question0(2) /\ Target0(0) # Target0(1)
    /\ model = "echo"

\* C4: len(adapter) is the table's row count and adapter[i] is the (question,
\* target) pair stored in row i by position, before and after infer_dataset()
\* has attached the predictions column.
C4_AdapterView ==
    /\ DatasetLen(ds_data) = Rows0
    /\ \A i \in 0..(Rows0 - 1) :
        /\ GetItem(ds_data, i) = <<Question0(i), Target0(i)>>
        /\ GetItem(ds_data, i) = <<ds_data.rows[i + 1][ColIndex(data0.cols, "question")],
                                   ds_data.rows[i + 1][ColIndex(data0.cols, "target")]>>

\* the predictions column has been attached to a three-row table whose target
\* column comes before its question column
C4_Witness ==
    /\ inferCalls > 0
    /\ HasCol(ds_data, "predictions")
    /\ Rows0 = 3
    /\ ColIndex(data0.cols, "target") < ColIndex(data0.cols, "question")
    /\ Question0(0) # Question0(1)

\* C8: infer_dataset() on n rows with batch size b runs ceil(n/b) batches;
\* batch k holds rows k*b .. min((k+1)*b, n)-1 in that order and is tokenized
\* as those rows' questions; every batch but the last has b samples, the last
\* between 1 and b; every row is in exactly one batch; the accumulated
\* prediction list has length n.
C8_ConsecutiveBatches ==
    inferCalls > 0 =>
        LET n == Rows0
            b == batch_size
        IN /\ Len(batchLog) = (n + b - 1) \div b
           /\ \A k \in 0..(Len(batchLog) - 1) :
               /\ batchLog[k + 1].idx = [j \in 1..(Min((k + 1) * b, n) - k * b) |-> k * b + j - 1]
               /\ k < Len(batchLog) - 1 => Len(batchLog[k + 1].idx) = b
               /\ Len(batchLog[k + 1].idx) \in 1..b
               /\ batchLog[k + 1].texts =
                      [j \in 1..Len(batchLog[k + 1].idx) |-> Question0(batchLog[k + 1].idx[j])]
               /\ Len(batchLog[k + 1].out) = Len(batchLog[k + 1].idx)
           /\ \A i \in 0..(n - 1) :
               Cardinality({p \in (1..Len(batchLog)) \X (1..b) :
                               /\ p[2] <= Len(batchLog[p[1]].idx)
                               /\ batchLog[p[1]].idx[p[2]] = i}) = 1
           /\ Len(Accumulate(batchLog, 1, <<>>)) = n
           /\ IsDataFrame(datasetRet)

\* three rows have been inferred in batches of two: a full batch and a shorter
\* last one
C8_Witness ==
    /\ inferCalls > 0
    /\ Rows0 = 3 /\ batch_size = 2
    /\ Len(batchLog) = 2
    /\ Len(batchLog[2].idx) = 1

\* C9: for every batch and every position i in it, the returned prediction is
\* the decoded string of position i without its first len(question_i)+1
\* characters (empty when the decoded string is no longer than that), with the
\* length taken from the question at position i; when the decoded string is the
\* question, one separator character and a continuation, the prediction is the
\* continuation.  The same holds for the value infer_sample() returns.
C9_PromptStripped ==
    /\ \A k \in 1..Len(batchLog) :
        \A i \in 1..Len(batchLog[k].idx) :
            LET q == Question0(batchLog[k].idx[i])
                decoded == Decode(model, q)
            IN /\ Stripped(decoded, Len(q) + 1, batchLog[k].out[i])
               /\ EchoesPrompt(decoded, q) =>
                     decoded = q \o <<decoded[Len(q) + 1]>> \o batchLog[k].out[i]
    /\ sampleRet # None =>
        LET q == sampleArg.value[1]
            decoded == Decode(model, q)
        IN /\ Stripped(decoded, Len(q) + 1, sampleRet.value)
           /\ EchoesPrompt(decoded, q) =>
                 decoded = q \o <<decoded[Len(q) + 1]>> \o sampleRet.value

\* a batch of two questions of different lengths has been decoded by a model
\* that echoes the prompt, a separator and a continuation
C9_Witness ==
    /\ model = "echo"
    /\ \E k \in 1..Len(batchLog) :
        /\ Len(batchLog[k].texts) = 2
        /\ Len(batchLog[k].texts[1]) < Len(batchLog[k].texts[2])
        /\ batchLog[k].out[2] = Continuation(batchLog[k].texts[2])

\* C7: infer_sample(sample) tokenizes exactly one text, the sample's question,
\* and returns that question's stripped prediction, never None.
C7_SingleQuestionBatch ==
    sampleArg # None =>
        /\ sampleTexts = Value(<<sampleArg.value[1]>>)
        /\ sampleRet # None
        /\ Stripped(Decode(model, sampleArg.value[1]), Len(sampleArg.value[1]) + 1,
                    sampleRet.value)

\* C10: after one or more infer_dataset() calls the backing table has its
\* pre-inference columns followed by one predictions column, the same rows in
\* the same order with every pre-inference cell unchanged, and the call
\* returned a table with exactly the columns target and predictions.
C10_PredictionsColumnFrame ==
    inferCalls > 0 =>
        /\ ds_data.cols = data0.cols \o <<"predictions">>
        /\ Cardinality({j \in 1..Len(ds_data.cols) : ds_data.cols[j] = "predictions"}) = 1
        /\ Len(ds_data.rows) = Rows0
        /\ \A i \in 1..Rows0 : \A j \in 1..Len(data0.cols) :
              ds_data.rows[i][j] = data0.rows[i][j]
        /\ IsDataFrame(datasetRet)
        /\ datasetRet.cols = <<"target", "predictions">>
        /\ Len(datasetRet.rows) = Rows0

\* infer_dataset() has been called twice on the same pipeline
C10_Witness ==
    /\ inferCalls = 2
    /\ HasCol(ds_data, "predictions")
    /\ Len(data0.cols) = 3

----------------------------------------------------------------------------
(* Properties of the evaluator (SpecEval) *)

Requested == {metrics[i] : i \in 1..Len(metrics)}

\* C5: run() returns a mapping whose keys are exactly the requested metric
\* identifiers that are bleu or rouge; unsupported identifiers are left out
\* and raise nothing.
C5_SupportedKeysOnly ==
    runStatus = "ok" =>
        /\ DOMAIN runRet = Requested \cap {"bleu", "rouge"}
        /\ \A m \in Requested \ {"bleu", "rouge"} : m \notin DOMAIN runRet

\* run() has returned for a request naming bleu twice and an unsupported metric
C5_Witness ==
    /\ runStatus = "ok"
    /\ metrics = <<"bleu", "squad", "bleu">>
    /\ DOMAIN runRet = {"bleu"}

====
